---- MODULE Spec2Model ----
(***************************************************************************)
(* saferenv: `env`, but variables whose names look like secrets are         *)
(* redacted or removed before the command is executed.                      *)
(*                                                                          *)
(* The model follows src/src/main.rs (main, apply_env_var_filters,          *)
(* print_env_vars, setup_logging) and src/src/rules.rs (load_rules).        *)
(* Strings are sequences of one-character strings so that the regular       *)
(* expressions built by load_rules are really matched, character by         *)
(* character.  "xFF" stands for a byte that is not valid UTF-8 and "NUL"    *)
(* for the zero byte.                                                       *)
(***************************************************************************)
EXTENDS Integers, Sequences, FiniteSets, TLC

VARIABLES
    cli,        \* the parsed command line (struct Cli)
    config,     \* struct Config: rules and redact_value
    environ,    \* the process environment: a sequence of [key, val]
    vars_os,    \* the snapshot env::vars_os() took, as a sequence of keys
    idx,        \* position of the `for` loop in vars_os
    pc,         \* where main is
    exit_code,  \* the process's exit code, NoExit while it runs
    stdout,     \* the lines print_env_vars printed
    start_env   \* history: environ when main began

vars == <<cli, config, environ, vars_os, idx, pc, exit_code, stdout, start_env>>

----------------------------------------------------------------------------
(* Bounds and input domains *)

MaxEnv == 3

\* variable names
KEY     == <<"K", "E", "Y">>
XKEY    == <<"X", "K", "E", "Y">>
XqKEY   == <<"X", "?", "K", "E", "Y">>
KdotY   == <<"K", ".", "Y">>
key_lc  == <<"k", "e", "y">>
KEYS    == <<"K", "E", "Y", "S">>
SH      == <<"S", "H">>
U_PW    == <<"_", "P", "W">>
LPAREN  == <<"(">>
NONUTF8 == <<"xFF">>

EnvNames == {KEY, XqKEY, SH, U_PW, NONUTF8}

KeepLists  == {<<>>, <<KEY>>, <<XqKEY>>, <<LPAREN>>, <<SH, KEY>>}
UnsetLists == {<<>>, <<KEY>>, <<XqKEY>>, <<KdotY>>, <<SH, LPAREN>>}

\* names the explicit rules are probed with
ProbeNames == EnvNames \cup {XKEY, KdotY, key_lc, KEYS, LPAREN}

OrigValue    == "abc123"
RedactValues == {"[REDACTED]", "xxx"}
Verbosities  == {0, 4}

LS   == <<"l", "s">>
LNUL == <<"l", "NUL">>
\* Option<Vec<String>>: None is the empty sequence (clap gives no Some(vec![]))
Commands == {<<>>, <<LS>>, <<LNUL>>, <<LS, LNUL>>}

----------------------------------------------------------------------------
(* Program constants *)

ExitSuccess == 0
ExitUsage   == 64
ExitDataErr == 65
ExitPanic   == 101
NoExit      == -1
MaxVerbosity == 3

----------------------------------------------------------------------------
(* The regex crate, for the syntax the patterns of this program use:       *)
(* literals, ".", a postfix "?", the anchors "^" and "$", groups "(...)"    *)
(* and alternation "|".  A pattern is a sequence of characters.            *)

\* case folding, for the lower-case letters the names of this model use
Fold(c) ==
    CASE c = "k" -> "K"
      [] c = "e" -> "E"
      [] c = "y" -> "Y"
      [] OTHER   -> c

\* the parentheses of p[k..] balance, entering at depth d
RECURSIVE Balanced(_, _, _)
Balanced(p, k, d) ==
    IF k > Len(p) THEN d = 0
    ELSE IF p[k] = "(" THEN Balanced(p, k + 1, d + 1)
    ELSE IF p[k] = ")" THEN d > 0 /\ Balanced(p, k + 1, d - 1)
    ELSE Balanced(p, k + 1, d)

\* RegexBuilder::build() is Ok: groups are closed and every repetition
\* operator has something to repeat
Compiles(p) ==
    /\ Balanced(p, 1, 0)
    /\ \A k \in 1..Len(p) :
          p[k] = "?" => k > 1 /\ p[k - 1] \notin {"(", "|"}

\* the ")" closing the group entered before position k, at depth d
RECURSIVE GroupEnd(_, _, _)
GroupEnd(p, k, d) ==
    IF k > Len(p) THEN 0
    ELSE IF p[k] = "(" THEN GroupEnd(p, k + 1, d + 1)
    ELSE IF p[k] = ")" THEN (IF d = 1 THEN k ELSE GroupEnd(p, k + 1, d - 1))
    ELSE GroupEnd(p, k + 1, d)

\* last position of the atom starting at lo
AtomEnd(p, lo) == IF p[lo] = "(" THEN GroupEnd(p, lo + 1, 1) ELSE lo

\* last position of the run of "?" that starts at k (k - 1 when there is none)
RECURSIVE QuantEnd(_, _, _)
QuantEnd(p, k, hi) ==
    IF k <= hi /\ p[k] = "?" THEN QuantEnd(p, k + 1, hi) ELSE k - 1

\* first "|" of p[k..hi] outside any group, 0 when there is none
RECURSIVE TopBar(_, _, _, _)
TopBar(p, k, hi, d) ==
    IF k > hi THEN 0
    ELSE IF p[k] = "(" THEN TopBar(p, k + 1, hi, d + 1)
    ELSE IF p[k] = ")" THEN TopBar(p, k + 1, hi, d - 1)
    ELSE IF p[k] = "|" /\ d = 0 THEN k
    ELSE TopBar(p, k + 1, hi, d)

\* AltEnds(p, lo, hi, s, i): the positions of s where a match of p[lo..hi]
\* that starts at position i can end (position i is "before s[i]")
RECURSIVE AltEnds(_, _, _, _, _), CatEnds(_, _, _, _, _), AtomEnds(_, _, _, _, _)
AltEnds(p, lo, hi, s, i) ==
    LET b == TopBar(p, lo, hi, 0)
    IN  IF b = 0 THEN CatEnds(p, lo, hi, s, {i})
        ELSE CatEnds(p, lo, b - 1, s, {i}) \cup AltEnds(p, b + 1, hi, s, i)

CatEnds(p, lo, hi, s, from) ==
    IF lo > hi \/ from = {} THEN from
    ELSE LET ae   == AtomEnd(p, lo)
             qe   == QuantEnd(p, ae + 1, hi)
             once == UNION {AtomEnds(p, lo, ae, s, i) : i \in from}
         IN  CatEnds(p, qe + 1, hi, s, IF qe > ae THEN from \cup once ELSE once)

AtomEnds(p, lo, ae, s, i) ==
    CASE p[lo] = "(" -> AltEnds(p, lo + 1, ae - 1, s, i)
      [] p[lo] = "^" -> IF i = 1 THEN {i} ELSE {}
      [] p[lo] = "$" -> IF i = Len(s) + 1 THEN {i} ELSE {}
      [] p[lo] = "." -> IF i <= Len(s) THEN {i + 1} ELSE {}
      [] OTHER       -> IF i <= Len(s) /\ Fold(s[i]) = Fold(p[lo])
                        THEN {i + 1} ELSE {}

\* Regex::is_match of a case-insensitive regex: an unanchored search
is_match(p, s) == \E i \in 1..(Len(s) + 1) : AltEnds(p, 1, Len(p), s, i) # {}

----------------------------------------------------------------------------
(* src/src/rules.rs *)

Keep   == "Keep"
Redact == "Redact"
Unset  == "Unset"

Rule(n, p, a) == [name |-> n, pattern |-> p, action |-> a]

\* format!("^{key}$")
AnchoredPattern(k) == <<"^">> \o k \o <<"$">>

DefaultRules ==
    << Rule("generic_secret",
            <<"S","E","C","R","E","T","S","?","$">>, Redact),
       Rule("generic_secret_token",
            <<"T","O","K","E","N","S","?","$">>, Redact),
       Rule("generic_secret_key",
            <<"K","E","Y","S","?","$">>, Redact),
       Rule("generic_password",
            <<"P","A","S","S","W","O","R","D","S","?","$">>, Redact),
       Rule("generic_password_short",
            <<"(","_","|","-",")","P","W","$">>, Redact) >>

load_rules(keep, unset) ==
    [i \in 1..Len(keep) |->
        Rule("cli_explicit_keep", AnchoredPattern(keep[i]), Keep)]
    \o [i \in 1..Len(unset) |->
        Rule("cli_explicit_unset", AnchoredPattern(unset[i]), Unset)]
    \o DefaultRules

----------------------------------------------------------------------------
(* The process environment (std::env over the C environ array) *)

Range(f) == {f[i] : i \in DOMAIN f}

RECURSIVE SelectEntries(_, _)
\* env without the entries named k
SelectEntries(env, k) ==
    IF env = <<>> THEN <<>>
    ELSE (IF Head(env).key = k THEN <<>> ELSE <<Head(env)>>)
         \o SelectEntries(Tail(env), k)

\* env::remove_var
remove_var(env, k) == SelectEntries(env, k)

\* env::set_var: overwrite in place, or append a new entry
set_var(env, k, v) ==
    IF \E i \in DOMAIN env : env[i].key = k
    THEN [i \in DOMAIN env |->
            IF env[i].key = k THEN [key |-> k, val |-> v] ELSE env[i]]
    ELSE Append(env, [key |-> k, val |-> v])

\* env::vars_os(): a snapshot of the keys, in environ order
snapshot_keys(env) == [i \in DOMAIN env |-> env[i].key]

\* OsString::into_string() is Ok
Decodes(key_os) == "xFF" \notin Range(key_os)

\* CString::new() is Ok
CStringOk(arg) == "NUL" \notin Range(arg)

----------------------------------------------------------------------------
(* src/src/main.rs: apply_env_var_filters *)

NoMatch    == 0
RegexPanic == -1

\* The walk `for rule in &config.rules` from rule r on: the index of the
\* rule that matched, NoMatch when the walk ran off the end, RegexPanic when
\* build().unwrap() panicked on the way
RECURSIVE WalkRules(_, _, _)
WalkRules(rules, key, r) ==
    IF r > Len(rules) THEN NoMatch
    ELSE IF ~Compiles(rules[r].pattern) THEN RegexPanic
    ELSE IF is_match(rules[r].pattern, key) THEN r
    ELSE WalkRules(rules, key, r + 1)

\* ApplyAction with Unset emptying the value instead of removing the variable
ApplyActionEmptiesOnUnset(env, key, action, redact_value, ignore_environment) ==
    CASE action = Redact ->
            IF ignore_environment THEN remove_var(env, key)
            ELSE set_var(env, key, redact_value)
      [] action = Unset -> set_var(env, key, "")
      [] action = Keep  -> env

\* the `match rule.action` of a rule that matched
ApplyAction(env, key, action, redact_value, ignore_environment) ==
    CASE action = Redact ->
            IF ignore_environment THEN remove_var(env, key)
            ELSE set_var(env, key, redact_value)
      [] action = Unset -> remove_var(env, key)
      [] action = Keep  -> env

\* "No rules matched"
ApplyNoMatch(env, key, ignore_environment) ==
    IF ignore_environment THEN remove_var(env, key) ELSE env

\* One iteration of `for (ref key_os, _) in env::vars_os()`:
\* what it does to the environment and how the loop goes on
LoopBody(env, key_os, cfg, ignore_environment) ==
    IF ~Decodes(key_os) THEN [env |-> env, then |-> "break"]
    ELSE LET m == WalkRules(cfg.rules, key_os, 1)
         IN  IF m = RegexPanic THEN [env |-> env, then |-> "panic"]
             ELSE IF m = NoMatch
             THEN [env  |-> ApplyNoMatch(env, key_os, ignore_environment),
                   then |-> "next"]
             ELSE [env  |-> ApplyAction(env, key_os, cfg.rules[m].action,
                                        cfg.redact_value, ignore_environment),
                   then |-> "next"]

\* The whole loop from position i of the snapshot
RECURSIVE RunFilter(_, _, _, _, _)
RunFilter(env, keys, i, cfg, ignore_environment) ==
    IF i > Len(keys) THEN [env |-> env, then |-> "return"]
    ELSE LET b == LoopBody(env, keys[i], cfg, ignore_environment)
         IN  IF b.then = "next"
             THEN RunFilter(b.env, keys, i + 1, cfg, ignore_environment)
             ELSE b

----------------------------------------------------------------------------
(* Initial states: a command line and an inherited environment *)

\* the environments of at most MaxEnv variables, in every order
Environments ==
    UNION { { [i \in 1..n |-> [key |-> f[i], val |-> OrigValue]] :
                f \in {g \in [1..n -> EnvNames] :
                         \A a, b \in 1..n : a # b => g[a] # g[b]} } :
            n \in 0..MaxEnv }

Init ==
    /\ cli \in [ignore_environment : BOOLEAN,
                unset : UnsetLists,
                keep : KeepLists,
                redact_value : RedactValues,
                verbosity : Verbosities,
                command : Commands]
    /\ config = [rules |-> <<>>, redact_value |-> ""]
    /\ environ \in Environments
    /\ start_env = environ
    /\ vars_os = <<>>
    /\ idx = 0
    /\ pc = "main"
    /\ exit_code = NoExit
    /\ stdout = <<>>

----------------------------------------------------------------------------
(* main *)

Exit(code) == pc' = "exited" /\ exit_code' = code

Panic == pc' = "panicked" /\ exit_code' = ExitPanic

\* setup_logging returns Err(exitcode::USAGE)
SetupLoggingErr ==
    /\ pc = "main"
    /\ cli.verbosity > MaxVerbosity
    /\ Exit(ExitUsage)
    /\ UNCHANGED <<cli, config, environ, vars_os, idx, stdout, start_env>>

\* setup_logging is Ok (detect_and_warn_non_utf8_environment and the log
\* macros only write diagnostics); load_rules; Config; the call of
\* apply_env_var_filters up to the snapshot env::vars_os() takes
LoadRules ==
    /\ pc = "main"
    /\ cli.verbosity <= MaxVerbosity
    /\ config' = [rules |-> load_rules(cli.keep, cli.unset),
                  redact_value |-> cli.redact_value]
    /\ vars_os' = snapshot_keys(environ)
    /\ idx' = 1
    /\ pc' = "filter"
    /\ UNCHANGED <<cli, environ, exit_code, stdout, start_env>>

InLoop == pc = "filter" /\ idx <= Len(vars_os)

Body == LoopBody(environ, vars_os[idx], config, cli.ignore_environment)

\* a key that is not UTF-8: warn!, break
FilterBreak ==
    /\ InLoop
    /\ Body.then = "break"
    /\ pc' = "command"
    /\ UNCHANGED <<cli, config, environ, vars_os, idx, exit_code, stdout, start_env>>

\* build().unwrap() panics on a pattern that is no regular expression
FilterPanic ==
    /\ InLoop
    /\ Body.then = "panic"
    /\ Panic
    /\ UNCHANGED <<cli, config, environ, vars_os, idx, stdout, start_env>>

\* a rule matched, or none did: act on the key and go to the next one
FilterKey ==
    /\ InLoop
    /\ Body.then = "next"
    /\ environ' = Body.env
    /\ idx' = idx + 1
    /\ UNCHANGED <<cli, config, vars_os, pc, exit_code, stdout, start_env>>

\* the loop ran through the snapshot
FilterReturn ==
    /\ pc = "filter"
    /\ idx > Len(vars_os)
    /\ pc' = "command"
    /\ UNCHANGED <<cli, config, environ, vars_os, idx, exit_code, stdout, start_env>>

\* print_env_vars: env::vars() panics at an entry that is not unicode,
\* after the lines before it were printed
UnicodePrefix(env) ==
    IF \E i \in DOMAIN env : ~Decodes(env[i].key)
    THEN SubSeq(env, 1, (CHOOSE i \in DOMAIN env :
                            /\ ~Decodes(env[i].key)
                            /\ \A j \in 1..(i - 1) : Decodes(env[j].key)) - 1)
    ELSE env

PrintEnv ==
    /\ pc = "command"
    /\ cli.command = <<>>
    /\ stdout' = UnicodePrefix(environ)
    /\ IF Len(UnicodePrefix(environ)) = Len(environ)
       THEN Exit(ExitSuccess) ELSE Panic
    /\ UNCHANGED <<cli, config, environ, vars_os, idx, start_env>>

\* CString::new(command[0]) fails: exitcode::DATAERR
CommandDataErr ==
    /\ pc = "command"
    /\ cli.command # <<>>
    /\ ~CStringOk(cli.command[1])
    /\ Exit(ExitDataErr)
    /\ UNCHANGED <<cli, config, environ, vars_os, idx, stdout, start_env>>

\* CString::new(arg).expect("Could not process arg") panics
CommandArgPanic ==
    /\ pc = "command"
    /\ cli.command # <<>>
    /\ CStringOk(cli.command[1])
    /\ \E i \in 2..Len(cli.command) : ~CStringOk(cli.command[i])
    /\ Panic
    /\ UNCHANGED <<cli, config, environ, vars_os, idx, stdout, start_env>>

CanExec ==
    /\ pc = "command"
    /\ cli.command # <<>>
    /\ \A i \in 1..Len(cli.command) : CStringOk(cli.command[i])

\* execvp replaces the process image: main never goes on
ExecReplaces ==
    /\ CanExec
    /\ pc' = "execed"
    /\ UNCHANGED <<cli, config, environ, vars_os, idx, exit_code, stdout, start_env>>

\* execvp returns an error: expect_err yields it, the match arm ends and
\* main returns process::ExitCode::SUCCESS
ExecReturns ==
    /\ CanExec
    /\ pc' = "exec_failed"
    /\ exit_code' = ExitSuccess
    /\ UNCHANGED <<cli, config, environ, vars_os, idx, stdout, start_env>>

Next ==
    \/ SetupLoggingErr
    \/ LoadRules
    \/ FilterBreak
    \/ FilterPanic
    \/ FilterKey
    \/ FilterReturn
    \/ PrintEnv
    \/ CommandDataErr
    \/ CommandArgPanic
    \/ ExecReplaces
    \/ ExecReturns

Spec == Init /\ [][Next]_vars

----------------------------------------------------------------------------
(* What the claims speak of *)

\* rule matches name k, when its pattern is a regular expression at all
Matches(rule, k) == Compiles(rule.pattern) /\ is_match(rule.pattern, k)

\* the earliest rule of the rule set that matches k, 0 when none does
FirstMatching(rules, k) ==
    IF \E r \in DOMAIN rules : Matches(rules[r], k)
    THEN CHOOSE r \in DOMAIN rules :
            /\ Matches(rules[r], k)
            /\ \A q \in 1..(r - 1) : ~Matches(rules[q], k)
    ELSE 0

FirstAction(rules, k) ==
    IF FirstMatching(rules, k) = 0 THEN "None"
    ELSE rules[FirstMatching(rules, k)].action

\* the entries of env named k
EntriesOf(env, k) == {e \in Range(env) : e.key = k}

\* what the first matching rule (or the residual policy) makes of entry e
Expected(e) ==
    LET a == FirstAction(config.rules, e.key)
    IN  CASE a = Keep   -> {e}
          [] a = Unset  -> {}
          [] a = Redact -> IF cli.ignore_environment THEN {}
                           ELSE {[key |-> e.key, val |-> config.redact_value]}
          [] OTHER      -> IF cli.ignore_environment THEN {} ELSE {e}

\* apply_env_var_filters has returned and main has not gone on yet
Filtered == pc = "command"

FoldName(k) == [i \in DOMAIN k |-> Fold(k[i])]

\* the literal name the explicit rule r was built from
NameOfRule(r) ==
    IF r <= Len(cli.keep) THEN cli.keep[r] ELSE cli.unset[r - Len(cli.keep)]

ExplicitRules == 1..(Len(cli.keep) + Len(cli.unset))

\* some keep or unset name gives a pattern that does not compile
HasBadPattern ==
    \E n \in Range(cli.keep) \cup Range(cli.unset) : ~Compiles(AnchoredPattern(n))

\* the starting environment, enumerated in every order
Reorderings == {q \in Environments : Range(q) = Range(start_env)}

----------------------------------------------------------------------------
(* Claims *)

\* C1: a variable whose name was given with --keep is, after
\* apply_env_var_filters, still present with its original value, whatever
\* ignore_environment is and whatever default Redact pattern matches it.
C1_KeepWins ==
    Filtered =>
        \A n \in Range(cli.keep) :
            \A e \in EntriesOf(start_env, n) : e \in Range(environ)

\* C2: with ignore_environment off, every variable (with a decodable name)
\* whose first matching rule is a Redact rule ends apply_env_var_filters
\* present under the same name with the value redact_value.
C2_Redacted ==
    (Filtered /\ ~cli.ignore_environment) =>
        \A e \in Range(start_env) :
            (Decodes(e.key) /\ FirstAction(config.rules, e.key) = Redact)
                => EntriesOf(environ, e.key)
                     = {[key |-> e.key, val |-> config.redact_value]}

\* C3: with ignore_environment on, after apply_env_var_filters the
\* variables with decodable names that remain are exactly those whose first
\* matching rule is Keep, each with its original value.
C3_OnlyKept ==
    (Filtered /\ cli.ignore_environment) =>
        {e \in Range(environ) : Decodes(e.key)}
            = {e \in Range(start_env) :
                 Decodes(e.key) /\ FirstAction(config.rules, e.key) = Keep}

\* C4: the rule load_rules builds from a keep or unset name N matches only
\* the names equal to N up to letter case.
C4_ExactNameOnly ==
    config.rules # <<>> =>
        \A r \in ExplicitRules : \A k \in ProbeNames :
            (Decodes(k) /\ Matches(config.rules[r], k))
                => FoldName(k) = FoldName(NameOfRule(r))

\* C5: when apply_env_var_filters returns, a variable with an undecodable
\* name is as it was and every other variable has received the action of its
\* first matching rule, or the residual policy when no rule matches.
C5_SkipAndContinue ==
    Filtered =>
        \A e \in Range(start_env) :
            EntriesOf(environ, e.key)
                = IF Decodes(e.key) THEN Expected(e) ELSE {e}

\* C6: when a keep or unset name gives a pattern that does not compile, no
\* variable is ever removed or overwritten, the command is not executed,
\* nothing is printed and the exit code is never 0.
C6_BadPatternFailsFirst ==
    HasBadPattern =>
        /\ environ = start_env
        /\ pc \notin {"execed", "exec_failed"}
        /\ stdout = <<>>
        /\ exit_code # ExitSuccess

\* C7: when execvp returns the exit code is not 0; the exit code is 0 only
\* when no command was given and the environment was printed.
C7_ExecFailureNonzero ==
    /\ pc = "exec_failed" => exit_code # ExitSuccess
    /\ exit_code = ExitSuccess => (cli.command = <<>> /\ pc = "exited")

\* C8: the environment apply_env_var_filters leaves is the same (as a
\* mapping) for every order in which the starting environment is enumerated.
C8_OrderIndependent ==
    Filtered =>
        \A q \in Reorderings :
            LET r == RunFilter(q, snapshot_keys(q), 1, config,
                               cli.ignore_environment)
            IN  r.then # "panic" /\ Range(r.env) = Range(environ)

\* C9: in every state no variable has been added or renamed: each variable
\* present has the name of a starting variable and either that variable's
\* original value or redact_value, and no name is present twice.
C9_NoAddNoRename ==
    /\ \A e \in Range(environ) :
          \E s \in Range(start_env) :
              s.key = e.key /\ e.val \in {s.val, cli.redact_value}
    /\ \A i, j \in DOMAIN environ :
          environ[i].key = environ[j].key => i = j

\* C9 witness: the filter returned having redacted one variable, removed
\* another and left a third as it was
C9_Witness ==
    /\ Filtered
    /\ \E s \in Range(start_env) :
          EntriesOf(environ, s.key) = {[key |-> s.key, val |-> cli.redact_value]}
    /\ \E s \in Range(start_env) : EntriesOf(environ, s.key) = {}
    /\ \E s \in Range(start_env) : s \in Range(environ)

\* C10 (its consequences, as they show once the filter has returned):
\* first match wins over keep rules, then unset rules, then default
\* rules, so a name given as both keep and unset is kept unchanged, and a name
\* given as unset (and not as keep) that a default Redact pattern matches is
\* removed, not redacted.
C10_FirstMatchWins ==
    Filtered =>
        /\ \A n \in Range(cli.keep) \cap Range(cli.unset) :
              \A e \in EntriesOf(start_env, n) : e \in Range(environ)
        /\ \A n \in Range(cli.unset) \ Range(cli.keep) :
              (\E d \in DOMAIN DefaultRules : Matches(DefaultRules[d], n))
                  => (EntriesOf(start_env, n) # {}
                        => EntriesOf(environ, n) = {})

\* First match wins, step by step: an iteration of the loop that acts on a
\* key changes the environment exactly as the earliest matching rule (or the
\* residual policy) says, and only under that key.
FirstMatchWinsStep ==
    [][FilterKey =>
          LET k == vars_os[idx]
          IN  \A s \in Range(environ) :
                 EntriesOf(environ', s.key)
                    = IF s.key = k THEN Expected(s) ELSE {s}]_vars


====
